---- MODULE Spec2Model ----
(***************************************************************************)
(* Model of the song-analysis backend: the text helpers and parse_song of  *)
(* backend/utils.py and the aggregation loop get_featured_artists of       *)
(* backend/app.py.                                                         *)
(*                                                                         *)
(* A Python str is a sequence of Unicode code points (naturals); a Python  *)
(* list is a sequence; a Python dict read from JSON is a record that       *)
(* carries the set of keys it really has in its field "keys" (a field      *)
(* whose key is not in "keys" is absent from the dict).                    *)
(***************************************************************************)
EXTENDS Integers, Sequences, FiniteSets, TLC

(***************************************************************************)
(* Code points used by the program and by the inputs of the model.         *)
(***************************************************************************)
SP == 32
AMP == 38
APOS == 39
COMMA == 44
NBSP == 160
CYR_IE == 1077
ZWSP == 8203
RSQUO == 8217
LAT_E == 101

\* The punctuation of the regular expressions of clean_lyrics.
ChBang == 33
ChRParen == 41
ChDot == 46
ChQuest == 63
ChRBrack == 93

\* str.isspace() of one character: the code points Python treats as whitespace.
Whitespace ==
    {9, 10, 11, 12, 13, 28, 29, 30, 31, 32, 133, 160, 5760, 8232, 8233, 8239, 8287, 12288}
        \cup (8192..8202)

\* str.isdigit() of one character (ASCII digits, superscripts, Arabic-Indic digits).
IsDigit(c) == c \in (48..57) \cup {178, 179, 185} \cup (1632..1641)

\* s.isspace(): non-empty and made of whitespace only.
isspace(s) == Len(s) > 0 /\ \A i \in 1..Len(s) : s[i] \in Whitespace

RECURSIVE lstrip(_)
lstrip(s) == IF Len(s) > 0 /\ s[1] \in Whitespace THEN lstrip(Tail(s)) ELSE s

RECURSIVE rstrip(_)
rstrip(s) ==
    IF Len(s) > 0 /\ s[Len(s)] \in Whitespace THEN rstrip(SubSeq(s, 1, Len(s) - 1)) ELSE s

\* s.strip()
strip(s) == rstrip(lstrip(s))

\* True when key occurs in s at (1-based) position i.
OccursAt(s, key, i) ==
    /\ i + Len(key) - 1 <= Len(s)
    /\ \A k \in 1..Len(key) : s[i + k - 1] = key[k]

\* s.find(key): the 0-based index of the first occurrence, -1 when there is none.
find(s, key) ==
    LET hits == {i \in 1..(Len(s) + 1) : OccursAt(s, key, i)}
    IN  IF hits = {} THEN -1 ELSE (CHOOSE i \in hits : \A j \in hits : i <= j) - 1

\* s.replace(key, val) for a non-empty key: every non-overlapping occurrence,
\* scanning from the left.
RECURSIVE replace_from(_, _, _, _)
replace_from(s, key, val, i) ==
    IF i > Len(s) THEN << >>
    ELSE IF OccursAt(s, key, i) THEN val \o replace_from(s, key, val, i + Len(key))
    ELSE <<s[i]>> \o replace_from(s, key, val, i + 1)

\* A variant of replace that rewrites the first occurrence only, as
\* s.replace(key, val, 1) would.
replace_first(s, key, val) ==
    LET at == find(s, key)
    IN  IF at = -1 THEN s
        ELSE SubSeq(s, 1, at) \o val \o SubSeq(s, at + Len(key) + 1, Len(s))

replace(s, key, val) == replace_from(s, key, val, 1)

\* config.unicode_dict, in insertion order (the order a dict is iterated in).
unicode_dict ==
    << <<(<<NBSP>>), <<SP>>>>, <<(<<RSQUO>>), <<APOS>>>>,
       <<(<<ZWSP>>), <<SP>>>>, <<(<<CYR_IE>>), <<LAT_E>>>> >>

\* A variant of replace_all that stops after the first key of the mapping.
replace_all_first_key(content, mapping, k) ==
    IF k > Len(mapping) \/ k > 1 THEN content
    ELSE replace(content, mapping[k][1], mapping[k][2])

RECURSIVE replace_all(_, _, _)
replace_all(content, mapping, k) ==
    IF k > Len(mapping) THEN content
    ELSE replace_all(replace(content, mapping[k][1], mapping[k][2]), mapping, k + 1)

\* A variant of remove_unicode without the test of lines 378-379.
remove_unicode_always(content, mapping) == replace_all(content, mapping, 1)

\* utils.remove_unicode
remove_unicode(content, mapping) ==
    IF Len(content) = 0 \/ isspace(content) THEN content
    ELSE replace_all(content, mapping, 1)

(***************************************************************************)
(* utils.split_artist_names with its default delimiters.  The pattern is   *)
(* the concatenation of "\s*", ",|&" and "\s*": an alternation of          *)
(* [whitespace run, comma] and [ampersand, whitespace run].                *)
(***************************************************************************)
RECURSIVE ws_run(_, _)
\* Number of whitespace characters of s starting at position i.
ws_run(s, i) == IF i <= Len(s) /\ s[i] \in Whitespace THEN 1 + ws_run(s, i + 1) ELSE 0

\* A variant of delimiter_match for a pattern that also takes a run of
\* whitespace alone as a delimiter.
delimiter_match_space(s, i) ==
    LET w == ws_run(s, i)
    IN  IF i + w <= Len(s) /\ s[i + w] = COMMA THEN w + 1
        ELSE IF s[i] = AMP THEN 1 + ws_run(s, i + 1)
        ELSE w

\* Length of the match of the delimiter pattern at position i, 0 when it does
\* not match there.
delimiter_match(s, i) ==
    LET w == ws_run(s, i)
    IN  IF i + w <= Len(s) /\ s[i + w] = COMMA THEN w + 1
        ELSE IF s[i] = AMP THEN 1 + ws_run(s, i + 1)
        ELSE 0

RECURSIVE re_split(_, _, _)
\* re.split: the pieces between the non-overlapping matches, leftmost first.
re_split(s, i, start) ==
    IF i > Len(s) THEN <<SubSeq(s, start, Len(s))>>
    ELSE LET m == delimiter_match(s, i)
         IN  IF m > 0 THEN <<SubSeq(s, start, i - 1)>> \o re_split(s, i + m, i + m)
             ELSE re_split(s, i + 1, start)

RECURSIVE clean_names_keep_empty(_)
\* A variant of clean_names without the filter: [name.strip() for name in names].
clean_names_keep_empty(names) ==
    IF names = << >> THEN << >>
    ELSE <<strip(Head(names))>> \o clean_names_keep_empty(Tail(names))

RECURSIVE clean_names(_)
\* [name.strip() for name in names if name.strip()]
clean_names(names) ==
    IF names = << >> THEN << >>
    ELSE IF strip(Head(names)) = << >> THEN clean_names(Tail(names))
    ELSE <<strip(Head(names))>> \o clean_names(Tail(names))

split_artist_names(artist_names) ==
    IF Len(artist_names) = 0 \/ isspace(artist_names) THEN << >>
    ELSE clean_names(re_split(strip(artist_names), 1, 1))

\* dict helpers: key presence and the truthiness of d.get(key) for str/list values.
Has(d, key) == key \in d.keys
Truthy(d, key) == Has(d, key) /\ d[key] # << >>

RECURSIVE get_artist_list_raw(_)
\* A variant of get_artist_list that splits the raw name, without remove_unicode.
get_artist_list_raw(artist_data) ==
    IF artist_data = << >> THEN << >>
    ELSE LET metadata == Head(artist_data)
         IN  (IF Truthy(metadata, "name") THEN split_artist_names(metadata.name)
              ELSE << >>) \o get_artist_list_raw(Tail(artist_data))

RECURSIVE get_artist_list(_)
\* utils.get_artist_list
get_artist_list(artist_data) ==
    IF artist_data = << >> THEN << >>
    ELSE LET metadata == Head(artist_data)
         IN  (IF Truthy(metadata, "name")
              THEN split_artist_names(remove_unicode(metadata.name, unicode_dict))
              ELSE << >>) \o get_artist_list(Tail(artist_data))

(***************************************************************************)
(* The lyrics pipeline of utils.py.  An operation that can raise returns   *)
(* a result [type, val, key, detail]: type "ok" with the value in val, or  *)
(* the Python exception type with the missing key / a tag of its message.  *)
(***************************************************************************)
Ok(v) == [type |-> "ok", val |-> v, key |-> "", detail |-> ""]
Raise(t, k, d) == [type |-> t, val |-> << >>, key |-> k, detail |-> d]

\* page_data[start:end] for 0-based start, end with 0 <= start, end <= len.
Slice(s, start, end) == SubSeq(s, start + 1, end)

\* A variant of extract_lyrics that slices from the index find returns, the
\* start of the start pattern.
extract_lyrics_from_marker(page_data, start_pattern, end_pattern) ==
    LET s0 == find(page_data, start_pattern)
        start == IF s0 = -1 THEN 0 ELSE s0
        e0 == find(page_data, end_pattern)
        end == IF e0 = -1 THEN Len(page_data) ELSE e0
    IN  Slice(page_data, start, end)

\* utils.extract_lyrics
extract_lyrics(page_data, start_pattern, end_pattern) ==
    LET s0 == find(page_data, start_pattern)
        start == IF s0 = -1 THEN 0 ELSE s0 + Len(start_pattern)
        e0 == find(page_data, end_pattern)
        end == IF e0 = -1 THEN Len(page_data) ELSE e0
    IN  Slice(page_data, start, end)

RECURSIVE remove_end_digits(_)
\* utils.remove_end_digits
remove_end_digits(content) ==
    IF Len(content) = 0 THEN << >>
    ELSE IF IsDigit(content[Len(content)])
         THEN remove_end_digits(SubSeq(content, 1, Len(content) - 1))
         ELSE content

(***************************************************************************)
(* A regular expression handed to insert_spaces is modelled by what        *)
(* re.compile and re.sub make of it: whether it compiles, its number of    *)
(* capturing groups, and, for the patterns made of two one-character       *)
(* classes in groups, the two classes and the classes the pattern matches  *)
(* between the groups, outside of both (none when the groups are           *)
(* adjacent).                                                              *)
(***************************************************************************)
GapPattern(g1, mid, g2) ==
    [compiles |-> TRUE, groups |-> 2, g1 |-> g1, mid |-> mid, g2 |-> g2]

Pattern(g1, g2) == GapPattern(g1, << >>, g2)

Punct == {ChDot, COMMA, ChBang, ChQuest}

\* The regex list clean_lyrics passes to insert_spaces.
lyrics_regex ==
    << Pattern((97..122) \cup Punct, 65..90),
       Pattern({ChRParen} \cup Punct, 65..90),
       Pattern({ChRBrack} \cup Punct, 65..90) >>

\* True when the pattern matches s at (1-based) position i.
re_match(pattern, s, i) ==
    LET gap == Len(pattern.mid)
    IN  /\ i + gap + 1 <= Len(s)
        /\ s[i] \in pattern.g1
        /\ \A k \in 1..gap : s[i + k] \in pattern.mid[k]
        /\ s[i + gap + 1] \in pattern.g2

RECURSIVE re_sub_twice(_, _, _)
\* A variant of re_sub that writes two spaces between the groups.
re_sub_twice(pattern, s, i) ==
    IF i > Len(s) THEN << >>
    ELSE IF re_match(pattern, s, i)
         THEN <<s[i], SP, SP, s[i + Len(pattern.mid) + 1]>>
                  \o re_sub_twice(pattern, s, i + Len(pattern.mid) + 2)
         ELSE <<s[i]>> \o re_sub_twice(pattern, s, i + 1)

RECURSIVE re_sub(_, _, _)
\* re.sub(pattern, r"\1 \2", s): the non-overlapping matches, leftmost
\* first, each WHOLE match rewritten as group 1, a space, group 2.
re_sub(pattern, s, i) ==
    IF i > Len(s) THEN << >>
    ELSE IF re_match(pattern, s, i)
         THEN <<s[i], SP, s[i + Len(pattern.mid) + 1]>>
                  \o re_sub(pattern, s, i + Len(pattern.mid) + 2)
         ELSE <<s[i]>> \o re_sub(pattern, s, i + 1)

RECURSIVE insert_spaces_from(_, _, _)
\* The loop of insert_spaces over the patterns k, k+1, ...
insert_spaces_from(cleaned_content, regex, k) ==
    IF k > Len(regex) THEN Ok(cleaned_content)
    ELSE LET pattern == regex[k]
         IN  IF ~pattern.compiles THEN Raise("ValueError", "", "regex error")
             ELSE IF pattern.groups > 2 THEN Raise("Exception", "", "two groups")
             ELSE IF pattern.groups < 2 THEN Raise("ValueError", "", "regex error")
             ELSE insert_spaces_from(re_sub(pattern, cleaned_content, 1), regex, k + 1)

\* utils.insert_spaces
insert_spaces(content, regex) ==
    IF Len(content) = 0 \/ isspace(content) THEN Ok(content)
    ELSE insert_spaces_from(content, regex, 1)

\* The default markers of clean_lyrics: "Lyrics[" and "Embed".
start_marker == <<76, 121, 114, 105, 99, 115, 91>>
end_marker == <<69, 109, 98, 101, 100>>

\* utils.clean_lyrics on the plain text soup.get_text() of the response.
clean_lyrics(page_data) ==
    IF Len(page_data) = 0 THEN Ok(<< >>)
    ELSE LET extracted_lyrics == extract_lyrics(page_data, start_marker, end_marker)
             no_digits == remove_end_digits(extracted_lyrics)
             no_unicode == remove_unicode(no_digits, unicode_dict)
             spaced == insert_spaces(no_unicode, lyrics_regex)
         IN  IF spaced.type = "ok" THEN spaced
             ELSE Raise("ValueError", "", "lyrics could not be cleaned")

(***************************************************************************)
(* The outcome of requests.get: a response (any status, requests does not  *)
(* raise on a status by itself) or one of the exceptions of                *)
(* requests.exceptions.                                                    *)
(***************************************************************************)
Response(status, text) == [kind |-> "response", status |-> status, text |-> text]
Failure(kind, status) == [kind |-> kind, status |-> status, text |-> << >>]

\* requests.exceptions: the classes an exception of each kind is an instance
\* of (ConnectTimeout derives from both ConnectionError and Timeout).
Classes(kind) ==
    IF kind = "ConnectTimeout"
    THEN {"ConnectTimeout", "ConnectionError", "Timeout", "RequestException"}
    ELSE IF kind = "ReadTimeout" THEN {"ReadTimeout", "Timeout", "RequestException"}
    ELSE {kind, "RequestException"}

\* isinstance(exception, class) for the exception of a failed request.
IsInstance(outcome, class) == outcome.kind # "response" /\ class \in Classes(outcome.kind)

\* The message chosen by the except clauses of song_lyrics, the first clause
\* whose class the exception is an instance of.
lyrics_error(outcome) ==
    IF IsInstance(outcome, "HTTPError")
    THEN IF 400 <= outcome.status /\ outcome.status < 500
         THEN Raise("Exception", "", "HTTP client error")
         ELSE IF outcome.status >= 500 THEN Raise("Exception", "", "HTTP server error")
         ELSE Raise("Exception", "", "HTTP unexpected error")
    ELSE IF IsInstance(outcome, "Timeout") THEN Raise("Exception", "", "timeout")
    ELSE IF IsInstance(outcome, "TooManyRedirects") THEN Raise("Exception", "", "redirects")
    ELSE Raise("Exception", "", "request exception")

\* utils.song_lyrics, given what requests.get does when it is called.
song_lyrics(path, outcome) ==
    IF path = << >> THEN Raise("ValueError", "", "empty path")
    ELSE IF outcome.kind = "response" THEN clean_lyrics(outcome.text)
    ELSE lyrics_error(outcome)

\* TRUE when song_lyrics(path) reaches requests.get.
lyrics_request_sent(path) == path # << >>

(***************************************************************************)
(* utils.search.  The exception that leaves it carries, besides the tag    *)
(* of its message, the URL the message quotes.                             *)
(***************************************************************************)
\* "http://api.genius.com/search?q="
search_prefix ==
    <<104, 116, 116, 112, 58, 47, 47, 97, 112, 105, 46, 103, 101, 110, 105, 117, 115, 46, 99, 111, 109, 47, 115, 101, 97, 114, 99, 104, 63, 113, 61>>

\* Line 37: url = f"http://api.genius.com/search?q={keyword}"
search_url(keyword) == search_prefix \o keyword

\* response.raise_for_status(): an HTTPError for a status in 400..599.
raise_for_status(outcome) ==
    IF outcome.kind = "response" /\ 400 <= outcome.status /\ outcome.status < 600
    THEN [kind |-> "HTTPError", status |-> outcome.status, text |-> outcome.text]
    ELSE outcome

SearchFailure(detail, url) ==
    [type |-> "Exception", val |-> << >>, key |-> "", detail |-> detail, url |-> url]

\* A variant of search_error whose first except clause is the one for
\* RequestException, the base class of the others.
search_error_base_first(outcome, url) == SearchFailure("request exception", url)

\* Lines 45-74: the except clauses of search, in their order.
search_error(outcome, url) ==
    IF IsInstance(outcome, "HTTPError")
    THEN IF 400 <= outcome.status /\ outcome.status < 500
         THEN SearchFailure("HTTP client error", url)
         ELSE IF outcome.status >= 500 THEN SearchFailure("HTTP server error", url)
         ELSE SearchFailure("HTTP unexpected error", url)
    ELSE IF IsInstance(outcome, "Timeout") THEN SearchFailure("timeout", url)
    ELSE IF IsInstance(outcome, "TooManyRedirects") THEN SearchFailure("redirects", url)
    ELSE SearchFailure("request exception", url)

\* utils.search, given what requests.get does when it is called.
search(keyword, outcome) ==
    IF keyword = << >> THEN Raise("ValueError", "", "empty keyword")
    ELSE LET checked == raise_for_status(outcome)
         IN  IF checked.kind = "response" THEN Ok(outcome)
             ELSE search_error(checked, search_url(keyword))

\* A variant of search_requests that sends the request again after a failure.
search_requests_retry(keyword, outcome) ==
    IF keyword = << >> THEN << >>
    ELSE IF raise_for_status(outcome).kind = "response" THEN <<search_url(keyword)>>
    ELSE <<search_url(keyword), search_url(keyword)>>

\* The URLs search(keyword) hands to requests.get, in order.
search_requests(keyword, outcome) ==
    IF keyword = << >> THEN << >> ELSE <<search_url(keyword)>>

\* A variant of lyrics_requests that sends the request before the path is tested.
lyrics_requests_unguarded(path) == <<path>>

\* The paths song_lyrics(path) requests from the lyrics host, in order.
lyrics_requests(path) == IF path = << >> THEN << >> ELSE <<path>>

(***************************************************************************)
(* utils.parse_song.                                                       *)
(***************************************************************************)
\* A record of song_data is the list [title, featured_artists,
\* primary_artists, path, lyrics]; the positions below are 1-based.
TITLE == 1
FEATURED == 2
PRIMARY == 3
PATH == 4
LYRICS == 5

\* A variant of parse_open that reads the key with a default, as
\* response_json.get("response", {}) would, instead of testing for it.
parse_open_default(body) ==
    IF ~body.decodes THEN Raise("ValueError", "", "json")
    ELSE IF ~Has(body, "response") \/ ~Has(body.response, "hits")
         THEN Raise("KeyError", "hits", "key error")
    ELSE Ok(body.response.hits)

\* Lines 111-122: decoding the body and reaching the collection of hits.
parse_open(body) ==
    IF ~body.decodes THEN Raise("ValueError", "", "json")
    ELSE IF ~Has(body, "response") THEN Raise("ValueError", "", "response key")
    ELSE IF ~Has(body.response, "hits") THEN Raise("KeyError", "hits", "key error")
    ELSE Ok(body.response.hits)

\* Lines 124-138: the fields parse_song reads from one result.
song_title(result) ==
    IF Truthy(result, "full_title") THEN remove_unicode(result.full_title, unicode_dict)
    ELSE << >>

song_path(result) == IF Truthy(result, "path") THEN result.path ELSE << >>

song_primary(result) ==
    IF Truthy(result, "primary_artists") THEN get_artist_list(result.primary_artists)
    ELSE << >>

\* A variant of song_featured that does not look at features_flag.
song_featured_unflagged(result, features_flag) ==
    IF Truthy(result, "featured_artists") THEN get_artist_list(result.featured_artists)
    ELSE << >>

song_featured(result, features_flag) ==
    IF features_flag /\ Truthy(result, "featured_artists")
    THEN get_artist_list(result.featured_artists)
    ELSE << >>

\* A variant of parse_hit that reads the result with a default, as
\* song.get("result", {}) would: a hit without "result" is an empty result.
parse_hit_default(song, features_flag, outcome) ==
    LET path == IF Has(song, "result") THEN song_path(song.result) ELSE << >>
        lyrics == song_lyrics(path, outcome)
    IN  IF lyrics.type # "ok" THEN lyrics
        ELSE Ok(<<song_title(song.result), song_featured(song.result, features_flag),
                  song_primary(song.result), path, lyrics.val>>)

\* Lines 123-143: one iteration of the loop over the hits, given what
\* requests.get does if song_lyrics calls it: the record to append, or the
\* exception that leaves parse_song.
parse_hit(song, features_flag, outcome) ==
    IF ~Has(song, "result") THEN Raise("KeyError", "result", "key error")
    ELSE LET result == song.result
             path == song_path(result)
             lyrics == song_lyrics(path, outcome)
         IN  IF lyrics.type # "ok" THEN lyrics
             ELSE Ok(<<song_title(result), song_featured(result, features_flag),
                       song_primary(result), path, lyrics.val>>)

\* TRUE when the iteration for this hit reaches requests.get.
hit_request_sent(song) == Has(song, "result") /\ lyrics_request_sent(song_path(song.result))

\* A variant of append_record that inserts at the front, as
\* song_data.insert(0, record) would.
append_record_front(song_data, record) == <<record>> \o song_data

\* song_data.append(record)
append_record(song_data, record) == Append(song_data, record)

\* The events requests.get adds to the log of the transport for one call.
log_request(log, path) == log \o << <<"get", path>>, <<"done", path>> >>

(***************************************************************************)
(* Inputs of the parse_song model.                                         *)
(***************************************************************************)
MaxHits == 2
MaxHeld == 1

Metadata(name) == [keys |-> {"name"}, name |-> name]
NoName == [keys |-> {}, name |-> << >>]

Result(keys, title, path, primary, featured) ==
    [keys |-> keys, full_title |-> title, path |-> path,
     primary_artists |-> primary, featured_artists |-> featured]

Hit(result) == [keys |-> {"result"}, result |-> result]
AllKeys == {"full_title", "path", "primary_artists", "featured_artists"}
NoResult == [keys |-> {}, result |-> Result({}, << >>, << >>, << >>, << >>)]

\* The strings of the inputs: "X", "Y & Z", "Y" + U+2019, "/a", "/b", "A", "B",
\* "B" + U+00A0 + "A".
NameX == <<88>>
NameYZ == <<89, SP, AMP, SP, 90>>
NameY == <<89, RSQUO>>
PathA == <<47, 97>>
PathB == <<47, 98>>
TitleA == <<65>>
TitleB == <<66>>
TitleBA == <<66, NBSP, 65>>

HitPool ==
    { Hit(Result(AllKeys, TitleA, PathA, <<Metadata(NameX)>>, <<Metadata(NameYZ)>>)),
      Hit(Result(AllKeys, TitleBA, PathB, <<Metadata(NameY)>>, << >>)),
      Hit(Result({"path", "primary_artists"}, << >>, PathA,
                 <<Metadata(NameX), NoName>>, << >>)),
      Hit(Result({"full_title", "featured_artists"}, TitleA, << >>, << >>,
                 <<Metadata(NameX)>>)),
      Hit(Result(AllKeys, TitleB, << >>, <<Metadata(NameX)>>, << >>)),
      NoResult }

HitLists == UNION {[1..n -> HitPool] : n \in 0..MaxHits}

Body(hits) ==
    [decodes |-> TRUE, keys |-> {"response"}, response |-> [keys |-> {"hits"}, hits |-> hits]]

Bodies ==
    {Body(hits) : hits \in HitLists}
        \cup { [decodes |-> FALSE, keys |-> {}, response |-> [keys |-> {}, hits |-> << >>]],
               [decodes |-> TRUE, keys |-> {}, response |-> [keys |-> {}, hits |-> << >>]],
               [decodes |-> TRUE, keys |-> {"response"},
                response |-> [keys |-> {}, hits |-> << >>]] }

\* The text of a lyrics page: "Lyrics[" + "aB" + "Embed" + "1".
Page1 == start_marker \o <<97, 66>> \o end_marker \o <<49>>

LyricsOutcomes == {Response(200, Page1), Failure("Timeout", 0)}

(***************************************************************************)
(* State.                                                                  *)
(*   default_song_data  the list object bound to the default of the        *)
(*                      song_data parameter when parse_song is defined     *)
(*   caller_song_data   the list object a caller passes as song_data       *)
(*   call               the arguments of the current call of parse_song    *)
(*   pc                 "idle", "loop", "returned" or "raised"             *)
(*   hits, hit_index    the hits iterated and the next one (1-based)       *)
(*   song_data_before   the contents of the call's song_data at its start  *)
(*   error              the exception that left the call                   *)
(*   requests_log       the requests.get events of the current call        *)
(***************************************************************************)
VARIABLES default_song_data, caller_song_data, call, pc, hits, hit_index,
          song_data_before, error, requests_log

(***************************************************************************)
(*   agg_pc        "idle", "loop", "returned" or "raised"                  *)
(*   agg_name      the artist the request is about                         *)
(*   agg_limit     features_limit                                          *)
(*   agg_songs     song_data, the list get_songs returned                  *)
(*   artist_count  the map under construction                              *)
(*   song_index    the 0-based index of the next record                    *)
(*   agg_error     the exception that left the call                        *)
(***************************************************************************)
VARIABLES agg_pc, agg_name, agg_limit, agg_songs, artist_count, song_index, agg_error

agg_vars == <<agg_pc, agg_name, agg_limit, agg_songs, artist_count, song_index, agg_error>>

parse_vars == <<default_song_data, caller_song_data, call, pc, hits, hit_index,
                song_data_before, error, requests_log>>

(***************************************************************************)
(*   text_fn    the text helper of utils.py that was called ("none"        *)
(*              before a call)                                             *)
(*   text_in    its first argument                                         *)
(*   text_arg   its other arguments, as a tuple                            *)
(*   text_out   what it returned, or the exception that left it            *)
(***************************************************************************)
VARIABLES text_fn, text_in, text_arg, text_out

text_vars == <<text_fn, text_in, text_arg, text_out>>

(***************************************************************************)
(*   http_fn       "search" or "song_lyrics" once it was called ("none"    *)
(*                 before)                                                 *)
(*   http_arg      the keyword or the path it was called with              *)
(*   http_outcome  what requests.get does when it is called                *)
(*   http_log      the requests handed to requests.get, in order           *)
(*   http_out      what the call returned, or the exception that left it   *)
(***************************************************************************)
VARIABLES http_fn, http_arg, http_outcome, http_log, http_out

http_vars == <<http_fn, http_arg, http_outcome, http_log, http_out>>

(***************************************************************************)
(*   songs_pc      "idle", "loop", "returned" or "raised" (app.get_songs)  *)
(*   songs_args    start_page, page_limit and page_increment of the call   *)
(*   page_count    the number of pages done                                *)
(*   page_param    params["page"]                                          *)
(*   songs_log     the page parameter of each search request, as sent      *)
(*   songs_pages   the records parsed from each page requested             *)
(*   songs_data    song_data, the list under construction                  *)
(*   songs_error   the exception that left the call                        *)
(***************************************************************************)
VARIABLES songs_pc, songs_args, page_count, page_param, songs_log, songs_pages,
          songs_data, songs_error

songs_vars == <<songs_pc, songs_args, page_count, page_param, songs_log, songs_pages,
                songs_data, songs_error>>

vars == <<parse_vars, agg_vars, text_vars, http_vars, songs_vars>>

NoError == Ok(<< >>)
NoCall == [song_data |-> "default", features_flag |-> TRUE, body |-> Body(<< >>)]

\* The list object the current call appends to and returns.
song_data == IF call.song_data = "default" THEN default_song_data ELSE caller_song_data

\* The records the current call has appended.
appended == SubSeq(song_data, Len(song_data_before) + 1, Len(song_data))

ParseInit ==
    /\ default_song_data = << >>
    /\ caller_song_data = << >>
    /\ call = NoCall
    /\ pc = "idle"
    /\ hits = << >>
    /\ hit_index = 1
    /\ song_data_before = << >>
    /\ error = NoError
    /\ requests_log = << >>

\* A call of parse_song: with the default accumulator or with the caller's list.
\* No further call is made once the two lists hold more than MaxHeld records.
ParseCall ==
    /\ pc = "idle"
    /\ Len(default_song_data) + Len(caller_song_data) <= MaxHeld
    /\ \E acc \in {"default", "caller"}, flag \in BOOLEAN, body \in Bodies :
          LET opened == parse_open(body)
          IN  /\ call' = [song_data |-> acc, features_flag |-> flag, body |-> body]
              /\ song_data_before' =
                    IF acc = "default" THEN default_song_data ELSE caller_song_data
              /\ IF opened.type = "ok"
                 THEN pc' = "loop" /\ hits' = opened.val /\ error' = NoError
                 ELSE pc' = "raised" /\ hits' = << >> /\ error' = opened
    /\ hit_index' = 1
    /\ requests_log' = << >>
    /\ UNCHANGED <<default_song_data, caller_song_data>>
    /\ UNCHANGED <<agg_vars, text_vars, http_vars, songs_vars>>

\* One iteration of the loop over the hits.
ParseHit ==
    /\ pc = "loop"
    /\ hit_index <= Len(hits)
    /\ LET song == hits[hit_index]
       IN  \E outcome \in LyricsOutcomes :
              LET step == parse_hit(song, call.features_flag, outcome)
              IN  /\ requests_log' =
                        IF hit_request_sent(song)
                        THEN log_request(requests_log, song_path(song.result))
                        ELSE requests_log
                  /\ IF step.type = "ok"
                     THEN /\ IF call.song_data = "default"
                             THEN /\ default_song_data' =
                                        append_record(default_song_data, step.val)
                                  /\ UNCHANGED caller_song_data
                             ELSE /\ caller_song_data' =
                                        append_record(caller_song_data, step.val)
                                  /\ UNCHANGED default_song_data
                          /\ hit_index' = hit_index + 1
                          /\ UNCHANGED <<pc, error>>
                     ELSE /\ pc' = "raised"
                          /\ error' = step
                          /\ UNCHANGED <<default_song_data, caller_song_data, hit_index>>
    /\ UNCHANGED <<call, hits, song_data_before>>
    /\ UNCHANGED <<agg_vars, text_vars, http_vars, songs_vars>>

\* The loop is over: return song_data.
ParseReturn ==
    /\ pc = "loop"
    /\ hit_index > Len(hits)
    /\ pc' = "returned"
    /\ UNCHANGED <<default_song_data, caller_song_data, call, hits, hit_index,
                   song_data_before, error, requests_log>>
    /\ UNCHANGED <<agg_vars, text_vars, http_vars, songs_vars>>

\* The caller has its result or its exception; the frame of the call is gone,
\* the two list objects live on.
ParseEnd ==
    /\ pc \in {"returned", "raised"}
    /\ pc' = "idle"
    /\ call' = NoCall
    /\ hits' = << >>
    /\ hit_index' = 1
    /\ song_data_before' = << >>
    /\ error' = NoError
    /\ requests_log' = << >>
    /\ UNCHANGED <<default_song_data, caller_song_data>>
    /\ UNCHANGED <<agg_vars, text_vars, http_vars, songs_vars>>

ParseNext == ParseCall \/ ParseHit \/ ParseReturn \/ ParseEnd

(***************************************************************************)
(* app.get_featured_artists: the aggregation of the records returned by    *)
(* get_songs into the map artist_count.                                    *)
(***************************************************************************)
\* Lines 92-95 and 99-102: one artist counted into the map.
count_artist(counts, artist) ==
    LET key == strip(artist)
    IN  IF key \notin DOMAIN counts
        THEN [k \in DOMAIN counts \cup {key} |-> IF k = key THEN 1 ELSE counts[k]]
        ELSE [counts EXCEPT ![key] = @ + 1]

RECURSIVE count_artists(_, _)
\* Lines 90-95 and 97-102: the loop over one list of artists.
count_artists(counts, artists) ==
    IF artists = << >> THEN counts
    ELSE count_artists(count_artist(counts, Head(artists)), Tail(artists))

\* Lines 86-103: one iteration of the while loop; song_index is 0-based.
aggregate_song(counts, songs, index) ==
    IF songs = << >> THEN Ok(counts)
    ELSE IF index >= Len(songs) THEN Raise("IndexError", "", "list index out of range")
    ELSE Ok(count_artists(count_artists(counts, songs[index + 1][PRIMARY]),
                          songs[index + 1][FEATURED]))

\* Line 85: the condition of the while loop.
keep_aggregating(counts, features_limit) == Cardinality(DOMAIN counts) <= features_limit

\* What the map stores under a key is a bare integer (lines 93, 95): the
\* count of the entry, and the titles the entry carries (none).
entry_count(value) == value
entry_titles(value) == << >>

MaxSongs == 3
MaxLimit == 2
MaxSpin == 3

SongRecord(title, featured, primary) == <<title, featured, primary, PathA, << >>>>

\* The artists "X", "Y", "Z" and " X" (as app.split_artists leaves it), and
\* the records of four songs "A", "B", "C", "D".
TokX == <<88>>
TokY == <<89>>
TokZ == <<90>>
TokSpX == <<SP, 88>>

SongPool ==
    { SongRecord(<<65>>, << >>, <<TokX, TokY>>),
      SongRecord(<<66>>, <<TokX>>, <<TokY>>),
      SongRecord(<<67>>, <<TokZ>>, <<TokZ>>),
      SongRecord(<<68>>, <<TokY>>, <<TokSpX>>) }

SongLists == UNION {[1..n -> SongPool] : n \in 0..MaxSongs}

ArtistNames == {TokX, TokY}


AggInit ==
    /\ agg_pc = "idle"
    /\ agg_name = TokX
    /\ agg_limit = 0
    /\ agg_songs = << >>
    /\ artist_count = << >>
    /\ song_index = 0
    /\ agg_error = NoError

\* Lines 80-84: a request for the collaborators of an artist.
AggCall ==
    /\ agg_pc = "idle"
    /\ \E name \in ArtistNames, limit \in 0..MaxLimit, songs \in SongLists :
          /\ agg_name' = name
          /\ agg_limit' = limit
          /\ agg_songs' = songs
    /\ artist_count' = << >>
    /\ song_index' = 0
    /\ agg_pc' = "loop"
    /\ agg_error' = NoError
    /\ UNCHANGED <<parse_vars, text_vars, http_vars, songs_vars>>

\* Lines 85-103: one iteration of the while loop.
AggSong ==
    /\ agg_pc = "loop"
    /\ keep_aggregating(artist_count, agg_limit)
    /\ song_index < Len(agg_songs) + MaxSpin
    /\ LET step == aggregate_song(artist_count, agg_songs, song_index)
       IN  IF step.type = "ok"
           THEN /\ artist_count' = step.val
                /\ song_index' = song_index + 1
                /\ UNCHANGED <<agg_pc, agg_error>>
           ELSE /\ agg_pc' = "raised"
                /\ agg_error' = step
                /\ UNCHANGED <<artist_count, song_index>>
    /\ UNCHANGED <<agg_name, agg_limit, agg_songs>>
    /\ UNCHANGED <<parse_vars, text_vars, http_vars, songs_vars>>

\* Line 105: the loop condition is false, the map is returned.
AggReturn ==
    /\ agg_pc = "loop"
    /\ ~keep_aggregating(artist_count, agg_limit)
    /\ agg_pc' = "returned"
    /\ UNCHANGED <<agg_name, agg_limit, agg_songs, artist_count, song_index, agg_error>>
    /\ UNCHANGED <<parse_vars, text_vars, http_vars, songs_vars>>

AggNext == AggCall \/ AggSong \/ AggReturn

(***************************************************************************)
(* The text helpers of utils.py, each called once on an input drawn from   *)
(* the strings over a small alphabet.                                      *)
(***************************************************************************)
MaxText == 4
MaxContent == 3
MaxPatterns == 2
MaxPairs == 2

Strings(alphabet, n) == UNION {[1..k -> alphabet] : k \in 0..n}

\* Pages over "L", "[", "E", "a", cut between the markers "L[" or "L" and "E".
Pages == Strings({76, 91, 69, 97}, MaxText)
StartPatterns == {<<76, 91>>, <<76>>}
EndPatterns == {<<69>>}

\* Inputs of remove_end_digits over "a", "1", superscript two and the space.
DigitTexts == Strings({97, 49, 178, SP}, MaxText)

\* Inputs of split_artist_names over "X", the space and the two delimiters.
NameTexts == Strings({88, SP, COMMA, AMP}, MaxText)

\* Raw names of artist entries: the same with two keys of unicode_dict.
RawNames == Strings({88, SP, COMMA, AMP, NBSP, RSQUO}, MaxText)

ArtistLists ==
    { <<NoName, Metadata(<< >>)>> }
        \cup { <<Metadata(n)>> : n \in RawNames }
        \cup { <<NoName, Metadata(n)>> : n \in RawNames }
        \cup { <<Metadata(n), Metadata(<< >>), Metadata(NameYZ)>> : n \in RawNames }

\* Contents of insert_spaces over "a", "B", the space and "-".
Contents == Strings({97, 66, SP, 45}, MaxContent)

\* "([a-z.,!?])([A-Z])", the first pattern of clean_lyrics.
PLower == lyrics_regex[1]
\* "([ A-Z])([A-Z])": its two groups overlap.
PSpaceUpper == Pattern({SP} \cup (65..90), 65..90)
\* "([a-z])-([A-Z])": two groups around a character outside of both.
PDash == GapPattern(97..122, <<{45}>>, 65..90)
\* "([a-z])([A-Z])([a-z])", "([a-z])" and "(a".
PThree == [compiles |-> TRUE, groups |-> 3, g1 |-> {}, mid |-> << >>, g2 |-> {}]
POne == [compiles |-> TRUE, groups |-> 1, g1 |-> {}, mid |-> << >>, g2 |-> {}]
PInvalid == [compiles |-> FALSE, groups |-> 0, g1 |-> {}, mid |-> << >>, g2 |-> {}]

PatternPool == {PLower, PSpaceUpper, PDash, PThree, POne, PInvalid}
PatternLists == UNION {[1..n -> PatternPool] : n \in 0..MaxPatterns}

\* Texts of remove_unicode over "a", "b" and the no-break space.
UnicodeTexts == Strings({97, 98, NBSP}, MaxContent)

\* Texts over "a" and the four keys of config.unicode_dict.
TableTexts == Strings({97, NBSP, RSQUO, ZWSP, CYR_IE}, MaxContent)

\* Mappings: config.unicode_dict, and the dicts of at most MaxPairs entries
\* with keys "a", "b", no-break space, "ab" and values "", "b", " ".
Pairs == {<<97>>, <<98>>, <<NBSP>>, <<97, 98>>} \X {<< >>, <<98>>, <<SP>>}
Mappings ==
    {unicode_dict}
        \cup { m \in UNION {[1..n -> Pairs] : n \in 0..MaxPairs} :
                  \A j, k \in 1..Len(m) : j # k => m[j][1] # m[k][1] }

TextInit ==
    /\ text_fn = "none"
    /\ text_in = << >>
    /\ text_arg = << >>
    /\ text_out = << >>

ExtractLyrics ==
    /\ text_fn = "none"
    /\ \E page_data \in Pages, start_pattern \in StartPatterns, end_pattern \in EndPatterns :
          /\ text_fn' = "extract_lyrics"
          /\ text_in' = page_data
          /\ text_arg' = <<start_pattern, end_pattern>>
          /\ text_out' = extract_lyrics(page_data, start_pattern, end_pattern)
    /\ UNCHANGED <<parse_vars, agg_vars, http_vars, songs_vars>>

RemoveEndDigits ==
    /\ text_fn = "none"
    /\ \E content \in DigitTexts :
          /\ text_fn' = "remove_end_digits"
          /\ text_in' = content
          /\ text_arg' = << >>
          /\ text_out' = remove_end_digits(content)
    /\ UNCHANGED <<parse_vars, agg_vars, http_vars, songs_vars>>

InsertSpaces ==
    /\ text_fn = "none"
    /\ \E content \in Contents, regex \in PatternLists :
          /\ text_fn' = "insert_spaces"
          /\ text_in' = content
          /\ text_arg' = <<regex>>
          /\ text_out' = insert_spaces(content, regex)
    /\ UNCHANGED <<parse_vars, agg_vars, http_vars, songs_vars>>

SplitArtistNames ==
    /\ text_fn = "none"
    /\ \E artist_names \in NameTexts :
          /\ text_fn' = "split_artist_names"
          /\ text_in' = artist_names
          /\ text_arg' = << >>
          /\ text_out' = split_artist_names(artist_names)
    /\ UNCHANGED <<parse_vars, agg_vars, http_vars, songs_vars>>

GetArtistList ==
    /\ text_fn = "none"
    /\ \E artist_data \in ArtistLists :
          /\ text_fn' = "get_artist_list"
          /\ text_in' = artist_data
          /\ text_arg' = << >>
          /\ text_out' = get_artist_list(artist_data)
    /\ UNCHANGED <<parse_vars, agg_vars, http_vars, songs_vars>>

RemoveUnicode ==
    /\ text_fn = "none"
    /\ \E call_args \in (UnicodeTexts \X Mappings) \cup (TableTexts \X {unicode_dict}) :
        LET content == call_args[1]
            mapping == call_args[2]
        IN
          /\ text_fn' = "remove_unicode"
          /\ text_in' = content
          /\ text_arg' = <<mapping>>
          /\ text_out' = remove_unicode(content, mapping)
    /\ UNCHANGED <<parse_vars, agg_vars, http_vars, songs_vars>>

\* remove_unicode called on its own result, with the same mapping; text_arg
\* keeps the content of the first call.
RemoveUnicodeAgain ==
    /\ text_fn = "remove_unicode"
    /\ text_fn' = "remove_unicode_again"
    /\ text_in' = text_out
    /\ text_arg' = <<text_arg[1], text_in>>
    /\ text_out' = remove_unicode(text_out, text_arg[1])
    /\ UNCHANGED <<parse_vars, agg_vars, http_vars, songs_vars>>

TextNext ==
    \/ ExtractLyrics
    \/ RemoveEndDigits
    \/ InsertSpaces
    \/ SplitArtistNames
    \/ GetArtistList
    \/ RemoveUnicode
    \/ RemoveUnicodeAgain

(***************************************************************************)
(* utils.search and utils.song_lyrics, each called once, with every        *)
(* outcome of the one requests.get it can reach.                           *)
(***************************************************************************)
Keywords == Strings({88, 89}, MaxContent)
Paths == {<< >>, PathA, PathB}

\* The body of an error page: "Not Found".
PageNotFound == <<78, 111, 116, 32, 70, 111, 117, 110, 100>>

Failures ==
    { Failure("HTTPError", 404), Failure("HTTPError", 503), Failure("Timeout", 0),
      Failure("ConnectTimeout", 0), Failure("TooManyRedirects", 0),
      Failure("ConnectionError", 0) }

SearchOutcomes ==
    { Response(200, << >>), Response(404, << >>), Response(500, << >>) } \cup Failures

PageOutcomes ==
    { Response(200, Page1), Response(404, PageNotFound), Response(500, << >>) }
        \cup Failures

HttpInit ==
    /\ http_fn = "none"
    /\ http_arg = << >>
    /\ http_outcome = Response(200, << >>)
    /\ http_log = << >>
    /\ http_out = NoError

Search ==
    /\ http_fn = "none"
    /\ \E keyword \in Keywords, outcome \in SearchOutcomes :
          /\ http_fn' = "search"
          /\ http_arg' = keyword
          /\ http_outcome' = outcome
          /\ http_log' = search_requests(keyword, outcome)
          /\ http_out' = search(keyword, outcome)
    /\ UNCHANGED <<parse_vars, agg_vars, text_vars, songs_vars>>

SongLyrics ==
    /\ http_fn = "none"
    /\ \E path \in Paths, outcome \in PageOutcomes :
          /\ http_fn' = "song_lyrics"
          /\ http_arg' = path
          /\ http_outcome' = outcome
          /\ http_log' = lyrics_requests(path)
          /\ http_out' = song_lyrics(path, outcome)
    /\ UNCHANGED <<parse_vars, agg_vars, text_vars, songs_vars>>

HttpNext == Search \/ SongLyrics

(***************************************************************************)
(* app.get_songs: the paging loop around app.search and app.parse_song.    *)
(***************************************************************************)
RECURSIVE str_of(_)
\* str(n) for n >= 0: the decimal digits.
str_of(n) == IF n < 10 THEN <<48 + n>> ELSE str_of(n \div 10) \o <<48 + (n % 10)>>

RECURSIVE int_of(_)
\* int(s) for a string of decimal digits.
int_of(s) ==
    IF Len(s) = 0 THEN 0
    ELSE 10 * int_of(SubSeq(s, 1, Len(s) - 1)) + (s[Len(s)] - 48)

\* params["page"] holds the int start_page at first, a str afterwards.
IntPage(n) == [type |-> "int", int |-> n, text |-> << >>]
StrPage(s) == [type |-> "str", int |-> 0, text |-> s]

\* int(params["page"])
page_number(page) == IF page.type = "int" THEN page.int ELSE int_of(page.text)

\* The value of the page parameter as requests writes it in the query string.
page_sent(page) == IF page.type = "int" THEN str_of(page.int) ELSE page.text

\* Line 66: params["page"] = str(int(params["page"]) + page_increment)
next_page(page, page_increment) == StrPage(str_of(page_number(page) + page_increment))

\* Line 60: the loop condition of get_songs.
keep_paging(count, page_limit) == count <= page_limit

\* Lines 62-63: search, then parse_song appending to song_data the records of
\* the page; an exception of either leaves get_songs.
songs_page(held, page) == IF page.type = "ok" THEN Ok(held \o page.val) ELSE page

MaxPages == 2

SongsArgs ==
    [start_page : {1, 9}, page_limit : 0..MaxPages, page_increment : {1, 2}]

\* What one page gives: no record, one record, or an exception of app.search
\* or of app.parse_song.
SongsPages ==
    { Ok(<< >>), Ok(<<SongRecord(<<65>>, << >>, <<TokX>>)>>),
      Raise("Exception", "", "timeout"), Raise("KeyError", "response", "key error") }

SongsInit ==
    /\ songs_pc = "idle"
    /\ songs_args = [start_page |-> 1, page_limit |-> 0, page_increment |-> 1]
    /\ page_count = 0
    /\ page_param = IntPage(1)
    /\ songs_log = << >>
    /\ songs_pages = << >>
    /\ songs_data = << >>
    /\ songs_error = NoError

\* Lines 56-59.
GetSongsCall ==
    /\ songs_pc = "idle"
    /\ \E args \in SongsArgs :
          /\ songs_args' = args
          /\ page_param' = IntPage(args.start_page)
    /\ songs_pc' = "loop"
    /\ page_count' = 0
    /\ songs_data' = << >>
    /\ UNCHANGED <<songs_log, songs_pages, songs_error>>
    /\ UNCHANGED <<parse_vars, agg_vars, text_vars, http_vars>>

\* Lines 60-66: one turn of the loop.
GetSongsPage ==
    /\ songs_pc = "loop"
    /\ keep_paging(page_count, songs_args.page_limit)
    /\ \E page \in SongsPages :
          LET step == songs_page(songs_data, page)
          IN  /\ songs_log' = Append(songs_log, page_sent(page_param))
              /\ IF step.type = "ok"
                 THEN /\ songs_data' = step.val
                      /\ songs_pages' = Append(songs_pages, page.val)
                      /\ page_count' = page_count + 1
                      /\ page_param' = next_page(page_param, songs_args.page_increment)
                      /\ UNCHANGED <<songs_pc, songs_error>>
                 ELSE /\ songs_pc' = "raised"
                      /\ songs_error' = step
                      /\ UNCHANGED <<songs_data, songs_pages, page_count, page_param>>
    /\ UNCHANGED songs_args
    /\ UNCHANGED <<parse_vars, agg_vars, text_vars, http_vars>>

\* Line 67.
GetSongsReturn ==
    /\ songs_pc = "loop"
    /\ ~keep_paging(page_count, songs_args.page_limit)
    /\ songs_pc' = "returned"
    /\ UNCHANGED <<songs_args, page_count, page_param, songs_log, songs_pages,
                   songs_data, songs_error>>
    /\ UNCHANGED <<parse_vars, agg_vars, text_vars, http_vars>>

SongsNext == GetSongsCall \/ GetSongsPage \/ GetSongsReturn

(***************************************************************************)
(* Specifications: parse_song called repeatedly (Spec), one request to     *)
(* get_featured_artists (AggSpec), one call of a text helper (TextSpec),   *)
(* one call of search or song_lyrics (HttpSpec) and one call of get_songs  *)
(* (SongsSpec).                                                            *)
(***************************************************************************)
Init == ParseInit /\ AggInit /\ TextInit /\ HttpInit /\ SongsInit

Next == ParseNext

Spec == Init /\ [][Next]_vars

AggSpec == Init /\ [][AggNext]_vars

TextSpec == Init /\ [][TextNext]_vars

HttpSpec == Init /\ [][HttpNext]_vars

SongsSpec == Init /\ [][SongsNext]_vars

(***************************************************************************)
(* Properties of parse_song (checked under Spec).                          *)
(***************************************************************************)
\* The fields of the record parse_song builds from a hit, lyrics apart.
BuiltFrom(record, song, features_flag) ==
    /\ record[TITLE] = song_title(song.result)
    /\ record[FEATURED] = song_featured(song.result, features_flag)
    /\ record[PRIMARY] = song_primary(song.result)
    /\ record[PATH] = song_path(song.result)

\* C1: calls of parse_song made without an accumulator are independent: the
\* sequence a call returns holds the records built from that call's own
\* response and nothing else, so its length is the number of hits of that
\* response and no record of an earlier call is in it.
C1_DefaultCallsIndependent ==
    (pc = "returned" /\ call.song_data = "default")
        => /\ Len(song_data) = Len(hits)
           /\ song_data = appended

\* C2: parse_song emits exactly one record per hit, in the order of the hits
\* (the k-th appended record is built from the k-th hit), and the lyrics
\* requests are issued one at a time in that order: each "get" is followed at
\* once by its "done", and the k-th request is the one for hit k.
C2_OneRecordPerHitInOrder ==
    pc # "idle" =>
        LET n == Len(appended)
            m == Len(requests_log)
        IN  /\ n = hit_index - 1
            /\ pc = "returned" => n = Len(hits)
            /\ \A k \in 1..n : BuiltFrom(appended[k], hits[k], call.features_flag)
            /\ m \in {2 * n, 2 * n + 2}
            /\ m = 2 * n + 2 => pc = "raised"
            /\ \A k \in 1..(m \div 2) :
                  /\ requests_log[2 * k - 1] = <<"get", song_path(hits[k].result)>>
                  /\ requests_log[2 * k] = <<"done", song_path(hits[k].result)>>

\* C2 witness: a call on a list that already holds a record returned after two
\* different hits.
C2_Witness ==
    /\ pc = "returned"
    /\ Len(hits) = 2
    /\ hits[1] # hits[2]
    /\ song_path(hits[1].result) # song_path(hits[2].result)
    /\ Len(appended) = 2
    /\ song_data_before # << >>
    /\ Len(requests_log) = 4

\* C3: a decoded body without the "response" key makes parse_song raise the
\* ValueError of the malformed response, and nothing is emitted: no request is
\* sent and the accumulator holds what it held before the call.
C3_MissingResponseKey ==
    (pc # "idle" /\ call.body.decodes /\ ~Has(call.body, "response"))
        => /\ pc = "raised"
           /\ error.type = "ValueError"
           /\ error.detail = "response key"
           /\ song_data = song_data_before
           /\ requests_log = << >>

\* C3 witness: such a call has raised on an accumulator that held a record.
C3_Witness ==
    /\ pc = "raised"
    /\ call.body.decodes
    /\ ~Has(call.body, "response")
    /\ song_data_before # << >>
    /\ error.type = "ValueError"

\* C4: a hit whose path is absent or empty still produces a record and does
\* not abort the batch: no call ends in an exception at such a hit.
C4_MissingPathStillRecorded ==
    \A k \in 1..Len(hits) :
        (/\ Has(hits[k], "result")
         /\ song_path(hits[k].result) = << >>
         /\ pc = "raised")
            => hit_index # k

\* C5: a hit without the "result" key makes parse_song raise the KeyError that
\* names the key: a call that stops at such a hit stops with that error, and no
\* call returns from a response that has such a hit.
C5_MissingResultKey ==
    /\ (pc = "raised" /\ hit_index <= Len(hits) /\ ~Has(hits[hit_index], "result"))
          => (error.type = "KeyError" /\ error.key = "result")
    /\ pc = "returned" => \A k \in 1..Len(hits) : Has(hits[k], "result")

\* C5 witness: the call raised at its second hit, which has no "result", after
\* a first hit that was recorded.
C5_Witness ==
    /\ pc = "raised"
    /\ hit_index = 2
    /\ Len(appended) = 1
    /\ ~Has(hits[2], "result")
    /\ error.key = "result"

\* C6: in every record parse_song builds, featured_artists is the empty list
\* when features_flag is false or the hit's featured_artists is absent or
\* empty, and the cleaned, split names of that field otherwise.
C6_FeaturedArtists ==
    pc # "idle" =>
        \A k \in 1..Len(appended) :
            LET result == hits[k].result
            IN  appended[k][FEATURED] =
                    IF \/ ~call.features_flag
                       \/ ~Has(result, "featured_artists")
                       \/ result.featured_artists = << >>
                    THEN << >>
                    ELSE get_artist_list(result.featured_artists)

\* C6 witness: a call without features_flag returned a record with no featured
\* artist for a hit that names two of them, next to a record already built
\* with the flag, which holds the two names.
C6_Witness ==
    /\ pc = "returned"
    /\ ~call.features_flag
    /\ Len(appended) >= 1
    /\ Truthy(hits[1].result, "featured_artists")
    /\ appended[1][FEATURED] = << >>
    /\ song_data_before # << >>
    /\ song_data_before[1][FEATURED] = << <<89>>, <<90>> >>

(***************************************************************************)
(* Properties of get_featured_artists (checked under AggSpec).             *)
(***************************************************************************)
\* TRUE when the record lists the collaborator as primary or featured artist.
Lists(record, c) ==
    \/ \E j \in 1..Len(record[PRIMARY]) : strip(record[PRIMARY][j]) = c
    \/ \E j \in 1..Len(record[FEATURED]) : strip(record[FEATURED][j]) = c

RECURSIVE TitlesListing(_, _, _)
\* The titles of the first n records of songs that list c, in order.
TitlesListing(songs, n, c) ==
    IF n = 0 THEN << >>
    ELSE IF Lists(songs[n], c)
         THEN Append(TitlesListing(songs, n - 1, c), songs[n][TITLE])
         ELSE TitlesListing(songs, n - 1, c)

\* C7: the aggregation never inserts the requesting artist's own name as a
\* key of the map.
C7_NoSelfKey == agg_pc = "returned" => agg_name \notin DOMAIN artist_count

\* C8: the aggregation accounts for every record of its input, with no upper
\* bound of its own: every artist of the primary or featured list of every
\* input record is a key of the returned map.
C8_EveryArtistIsKey ==
    agg_pc = "returned" =>
        \A i \in 1..Len(agg_songs) : \A pos \in {PRIMARY, FEATURED} :
            \A j \in 1..Len(agg_songs[i][pos]) :
                strip(agg_songs[i][pos][j]) \in DOMAIN artist_count

\* C9: for every key c of the map, count(c) >= 1 and count(c) is the number of
\* processed records that list c; a record that lists c both as primary and
\* as featured artist counts once.
C9_CountIsNumberOfSongs ==
    agg_pc = "returned" =>
        \A c \in DOMAIN artist_count :
            /\ entry_count(artist_count[c]) >= 1
            /\ entry_count(artist_count[c]) =
                  Cardinality({i \in 1..song_index : Lists(agg_songs[i], c)})

\* C10: every entry of the map carries the ordered titles of the songs the
\* collaborator was seen on: as many titles as its count, the i-th being the
\* title of the i-th processed record that lists the collaborator.
C10_TitlesPerEntry ==
    agg_pc = "returned" =>
        \A c \in DOMAIN artist_count :
            /\ Len(entry_titles(artist_count[c])) = entry_count(artist_count[c])
            /\ entry_titles(artist_count[c]) = TitlesListing(agg_songs, song_index, c)

(***************************************************************************)
(* Properties of the text helpers (checked under TextSpec).                *)
(***************************************************************************)
\* The least element of a non-empty set of integers.
Least(S) == CHOOSE i \in S : \A j \in S : i <= j
\* The greatest element of a non-empty set of integers.
Greatest(S) == CHOOSE i \in S : \A j \in S : j <= i

\* The 0-based indexes at which key occurs in s.
Occurrences(s, key) == {i \in 0..Len(s) : OccursAt(s, key, i + 1)}

\* The 0-based index at which the slice is to start: just after the first
\* occurrence of the start pattern, 0 when there is none.
SliceStart(page_data, start_pattern) ==
    IF Occurrences(page_data, start_pattern) = {} THEN 0
    ELSE Least(Occurrences(page_data, start_pattern)) + Len(start_pattern)

\* The 0-based index at which the slice is to end: the first occurrence of
\* the end pattern at or after start, the length of the blob when there is none.
SliceEnd(page_data, start, end_pattern) ==
    LET after == {i \in Occurrences(page_data, end_pattern) : i >= start}
    IN  IF after = {} THEN Len(page_data) ELSE Least(after)

\* C11: the end pattern is searched for only at or after the start position:
\* the slice extract_lyrics returns runs from the start position to the
\* first occurrence of the end pattern at or after it (to the end of the blob
\* when there is none), so an end pattern before the start marker does not
\* truncate or empty the result.
C11_EndSearchedAfterStart ==
    text_fn = "extract_lyrics"
        => LET start == SliceStart(text_in, text_arg[1])
           IN  text_out = Slice(text_in, start, SliceEnd(text_in, start, text_arg[2]))

\* C12: the slice extract_lyrics returns starts at index 0 when the start
\* pattern does not occur in the blob and just after its first occurrence
\* when it does: the result is a run of characters of the blob beginning at
\* that index (the whole rest of the blob when the end pattern does not
\* occur), so the start pattern matched is never part of it.
C12_SliceStartsAfterStartPattern ==
    text_fn = "extract_lyrics"
        => LET start == SliceStart(text_in, text_arg[1])
           IN  /\ \E n \in 0..(Len(text_in) - start) :
                     text_out = SubSeq(text_in, start + 1, start + n)
               /\ Occurrences(text_in, text_arg[2]) = {}
                     => text_out = SubSeq(text_in, start + 1, Len(text_in))

\* A blob in which text precedes the start pattern and a non-empty slice
\* follows it.
C12_Witness ==
    /\ text_fn = "extract_lyrics"
    /\ Occurrences(text_in, text_arg[1]) # {}
    /\ Least(Occurrences(text_in, text_arg[1])) > 0
    /\ text_out # << >>

\* The longest prefix of s whose last character is not one of "0".."9".
WithoutAsciiDigitsAtEnd(s) ==
    SubSeq(s, 1, Greatest({0} \cup {k \in 1..Len(s) : s[k] \notin 48..57}))

\* C13: remove_end_digits removes the maximal trailing run of the ASCII
\* digits 0-9 and nothing else: its result is the longest prefix of the
\* input whose last character is not an ASCII digit.
C13_OnlyAsciiDigitsRemoved ==
    text_fn = "remove_end_digits" => text_out = WithoutAsciiDigitsAtEnd(text_in)

\* insert_spaces has work to do on content: it is neither empty nor made of
\* whitespace only.
HasText(content) == content # << >> /\ \E i \in 1..Len(content) : content[i] \notin Whitespace

\* A pattern that compiles and has exactly two capturing groups.
TwoGroups(pattern) == pattern.compiles /\ pattern.groups = 2

RECURSIVE MatchStarts(_, _, _)
\* The positions at which the non-overlapping matches of the pattern in s
\* begin, the leftmost match taken first, from position i on.
MatchStarts(pattern, s, i) ==
    IF i > Len(s) THEN {}
    ELSE IF re_match(pattern, s, i)
         THEN {i} \cup MatchStarts(pattern, s, i + Len(pattern.mid) + 2)
         ELSE MatchStarts(pattern, s, i + 1)

RECURSIVE SpaceAfter(_, _, _)
\* s with one space written after each position of M, and nothing else changed.
SpaceAfter(s, M, i) ==
    IF i > Len(s) THEN << >>
    ELSE (IF i \in M THEN <<s[i], SP>> ELSE <<s[i]>>) \o SpaceAfter(s, M, i + 1)

RECURSIVE SpacedInOrder(_, _, _)
\* One space written after the first group of every match of pattern k, then
\* of pattern k + 1 in the result, and so on.
SpacedInOrder(s, regex, k) ==
    IF k > Len(regex) THEN s
    ELSE SpacedInOrder(SpaceAfter(s, MatchStarts(regex[k], s, 1), 1), regex, k + 1)

\* C14 (as stated): for content that is not empty or whitespace and every
\* list of valid two-group patterns, insert_spaces applies the patterns in
\* list order, each writing exactly one space between its two groups at
\* every non-overlapping match and leaving every other character unchanged;
\* with no pattern the content is returned unchanged.
C14_OneSpaceBetweenGroups ==
    (/\ text_fn = "insert_spaces"
     /\ HasText(text_in)
     /\ \A k \in 1..Len(text_arg[1]) : TwoGroups(text_arg[1][k]))
        => text_out = Ok(SpacedInOrder(text_in, text_arg[1], 1))

\* C14 (amended): the same for the lists of patterns made of two adjacent
\* capturing groups and nothing outside of them; what a pattern matches
\* outside of its two groups is removed from every match.
C14_OneSpaceBetweenAdjacentGroups ==
    (/\ text_fn = "insert_spaces"
     /\ HasText(text_in)
     /\ \A k \in 1..Len(text_arg[1]) :
            TwoGroups(text_arg[1][k]) /\ text_arg[1][k].mid = << >>)
        => text_out = Ok(SpacedInOrder(text_in, text_arg[1], 1))

\* Two patterns applied in order, the second matching the space the first
\* one wrote.
C14_Witness ==
    /\ text_fn = "insert_spaces"
    /\ text_arg[1] = <<PLower, PSpaceUpper>>
    /\ text_out.type = "ok"
    /\ Len(text_out.val) = Len(text_in) + 2

\* C15: for every content, the empty string and whitespace-only content
\* included, insert_spaces raises and returns no string when its list holds
\* a pattern whose number of capturing groups is not exactly two.
C15_WrongGroupCountRaises ==
    (/\ text_fn = "insert_spaces"
     /\ \E k \in 1..Len(text_arg[1]) :
            text_arg[1][k].compiles /\ text_arg[1][k].groups # 2)
        => text_out.type # "ok"

\* The index of the first pattern of the list that is not a valid two-group
\* pattern, 0 when there is none.
FirstRejected(regex) ==
    LET bad == {k \in 1..Len(regex) : ~TwoGroups(regex[k])}
    IN  IF bad = {} THEN 0 ELSE Least(bad)

\* C16: the error insert_spaces raises for a pattern with three capturing
\* groups is a ValueError, the kind it raises for a pattern that does not
\* compile or has fewer than two groups.
C16_ThreeGroupsIsValueError ==
    (/\ text_fn = "insert_spaces"
     /\ HasText(text_in)
     /\ FirstRejected(text_arg[1]) # 0
     /\ text_arg[1][FirstRejected(text_arg[1])].compiles
     /\ text_arg[1][FirstRejected(text_arg[1])].groups = 3)
        => text_out.type = "ValueError"

\* The delimiter characters of split_artist_names.
Delimiters == {COMMA, AMP}

\* s without the whitespace before its first and after its last character
\* that is not whitespace.
Trimmed(s) ==
    LET kept == {i \in 1..Len(s) : s[i] \notin Whitespace}
    IN  IF kept = {} THEN << >> ELSE SubSeq(s, Least(kept), Greatest(kept))

\* C17: for every input made only of commas, ampersands and whitespace, the
\* empty string included, split_artist_names returns the empty list.
C17_OnlyDelimitersGivesEmptyList ==
    (/\ text_fn = "split_artist_names"
     /\ \A i \in 1..Len(text_in) : text_in[i] \in Delimiters \cup Whitespace)
        => text_out = << >>

\* An input holding a comma, an ampersand and whitespace, and nothing else.
C17_Witness ==
    /\ text_fn = "split_artist_names"
    /\ \A i \in 1..Len(text_in) : text_in[i] \in Delimiters \cup Whitespace
    /\ \E i, j, k \in 1..Len(text_in) :
          text_in[i] = COMMA /\ text_in[j] = AMP /\ text_in[k] \in Whitespace
    /\ text_out = << >>

\* C18: for every non-empty input s without a comma or an ampersand,
\* split_artist_names returns the one-element list [trim(s)], or the empty
\* list when trim(s) is empty.
C18_NoDelimiterGivesTrimmedInput ==
    (/\ text_fn = "split_artist_names"
     /\ text_in # << >>
     /\ \A i \in 1..Len(text_in) : text_in[i] \notin Delimiters)
        => text_out = IF Trimmed(text_in) = << >> THEN << >> ELSE <<Trimmed(text_in)>>

\* An input without delimiter that has whitespace both around and inside the
\* name it holds.
C18_Witness ==
    /\ text_fn = "split_artist_names"
    /\ \A i \in 1..Len(text_in) : text_in[i] \notin Delimiters
    /\ Len(text_in) > 0 /\ text_in[1] \in Whitespace
    /\ Len(text_out) = 1
    /\ \E i \in 1..Len(text_out[1]) : text_out[1][i] \in Whitespace

\* The characters that are keys of config.unicode_dict.
UnicodeKeys == {unicode_dict[k][1][1] : k \in 1..Len(unicode_dict)}

\* The entries of artist_data that have a non-empty name.
Named(artist_data) ==
    {k \in 1..Len(artist_data) :
        "name" \in artist_data[k].keys /\ artist_data[k].name # << >>}

\* C19: every token get_artist_list produces is non-empty, has no whitespace
\* at either end, holds no comma, no ampersand and no key character of
\* unicode_dict, and is part of the normalised name of an entry that has a
\* non-empty name: the entries with a missing or empty name contribute no
\* token (and the call returns a list).
C19_ArtistTokensAreClean ==
    text_fn = "get_artist_list"
        => \A t \in 1..Len(text_out) :
              LET token == text_out[t]
              IN  /\ token # << >>
                  /\ token[1] \notin Whitespace
                  /\ token[Len(token)] \notin Whitespace
                  /\ \A i \in 1..Len(token) : token[i] \notin Delimiters \cup UnicodeKeys
                  /\ \E k \in Named(text_in) :
                        Occurrences(remove_unicode(text_in[k].name, unicode_dict), token) # {}

\* A list with a nameless entry and an entry whose name holds a delimiter and
\* a key of unicode_dict, giving two tokens.
C19_Witness ==
    /\ text_fn = "get_artist_list"
    /\ \E k \in 1..Len(text_in) : k \notin Named(text_in)
    /\ \E k \in Named(text_in) :
          /\ \E i \in 1..Len(text_in[k].name) : text_in[k].name[i] \in UnicodeKeys
          /\ \E i \in 1..Len(text_in[k].name) : text_in[k].name[i] \in Delimiters
    /\ Len(text_out) = 2

\* C20 (as stated): remove_unicode is idempotent for every text and every
\* mapping: applied to its own result it returns that result.
C20_RemoveUnicodeIdempotent ==
    text_fn = "remove_unicode_again" => text_out = text_in

\* Every key of the mapping is one character, and no value holds a
\* character that is a key.
DisjointTable(mapping) ==
    /\ \A k \in 1..Len(mapping) : Len(mapping[k][1]) = 1
    /\ \A j, k \in 1..Len(mapping) :
          \A i \in 1..Len(mapping[j][2]) : mapping[j][2][i] # mapping[k][1][1]

\* C20 (amended): remove_unicode is idempotent for every text and every
\* mapping whose keys are single characters that occur in none of its
\* values, as in config.unicode_dict.
C20_IdempotentOnDisjointTable ==
    (text_fn = "remove_unicode_again" /\ DisjointTable(text_arg[1]))
        => text_out = text_in

\* The table of the program applied twice to a text the first call changed.
C20_Witness ==
    /\ text_fn = "remove_unicode_again"
    /\ text_arg[1] = unicode_dict
    /\ text_arg[2] # text_in
    /\ text_out = text_in

\* The plain-text character config.unicode_dict gives for c, c itself when
\* it is not a key.
Plain(c) ==
    IF c \in UnicodeKeys
    THEN LET k == CHOOSE j \in 1..Len(unicode_dict) : unicode_dict[j][1] = <<c>>
         IN  unicode_dict[k][2][1]
    ELSE c

C23_EmptyArgumentRaisesBeforeRequest ==
    (http_fn \in {"search", "song_lyrics"} /\ http_arg = << >>)
        => http_out.type = "ValueError" /\ http_log = << >>

\* song_lyrics given the empty path while the host would have answered 200.
C23_Witness ==
    /\ http_fn = "song_lyrics"
    /\ http_arg = << >>
    /\ http_outcome.kind = "response" /\ http_outcome.status = 200
    /\ http_out.type = "ValueError"

\* The status of an HTTP status error: the one raise_for_status raises for
\* a response, or the one requests.get raised.
IsStatusError(outcome) ==
    \/ outcome.kind = "HTTPError"
    \/ outcome.kind = "response" /\ outcome.status >= 400 /\ outcome.status <= 599

\* The classification the caller is to see for a failed request.
Classification(outcome) ==
    IF IsStatusError(outcome) /\ outcome.status \in 400..499 THEN "HTTP client error"
    ELSE IF IsStatusError(outcome) /\ outcome.status >= 500 THEN "HTTP server error"
    ELSE IF outcome.kind \in {"Timeout", "ConnectTimeout", "ReadTimeout"} THEN "timeout"
    ELSE IF outcome.kind = "TooManyRedirects" THEN "redirects"
    ELSE "request exception"

C25_SearchSendsOneRequest ==
    (http_fn = "search" /\ http_arg # << >>)
        => /\ Len(http_log) = 1
           /\ http_out.type \in {"ok", "Exception"}
           /\ http_out.type = "ok" => http_out.val = http_outcome

\* A search whose one request fails with a server error.
C25_Witness ==
    /\ http_fn = "search"
    /\ http_arg # << >>
    /\ http_outcome.kind = "response" /\ http_outcome.status = 500
    /\ Len(http_log) = 1
    /\ http_out.type = "Exception"

\* C26: song_lyrics raises an HTTP status error whenever the lyrics host
\* answers with a 4xx or 5xx status; it never returns text cleaned from the
\* body of such a response.
C26_ErrorStatusRaises ==
    (/\ http_fn = "song_lyrics"
     /\ http_arg # << >>
     /\ http_outcome.kind = "response"
     /\ http_outcome.status >= 400)
        => /\ http_out.type = "Exception"
           /\ http_out.detail \in {"HTTP client error", "HTTP server error"}

(***************************************************************************)
(* Further properties of parse_song (checked under Spec).                  *)
(***************************************************************************)
\* C27: a decoded body that has "response" but no "hits" makes parse_song
\* raise ValueError, the error of an undecodable body or of a missing
\* "response" key.
C27_MissingHitsIsValueError ==
    (/\ pc = "raised"
     /\ call.body.decodes
     /\ Has(call.body, "response")
     /\ ~Has(call.body.response, "hits"))
        => error.type = "ValueError"

\* C28: when a call of parse_song raises, the accumulator holds exactly the
\* records it held before the call.
C28_RaiseLeavesAccumulatorAsBefore ==
    pc = "raised" => song_data = song_data_before

(***************************************************************************)
(* Further properties of get_featured_artists (checked under AggSpec).     *)
(***************************************************************************)
\* C29: get_featured_artists terminates with a map for every song list: it
\* never reads a song past the end of the list, and once every song has
\* been read the loop is left rather than turned again (an empty list
\* included).
C29_LoopEndsWithTheSongs ==
    /\ agg_error.type # "IndexError"
    /\ (agg_pc = "loop" /\ song_index >= Len(agg_songs))
          => ~keep_aggregating(artist_count, agg_limit)

(***************************************************************************)
(* Properties of get_songs (checked under SongsSpec).                      *)
(***************************************************************************)
RECURSIVE Joined(_)
\* The concatenation of a sequence of lists.
Joined(lists) == IF lists = << >> THEN << >> ELSE Head(lists) \o Joined(Tail(lists))

RECURSIVE Decimal(_)
\* The decimal numeral of a natural number.
Decimal(n) ==
    IF n <= 9 THEN <<CHOOSE d \in 48..57 : d - 48 = n>>
    ELSE Decimal(n \div 10) \o Decimal(n % 10)

\* C30: get_songs sends at most page_limit search requests, the k-th with
\* page parameter start_page + (k-1) * page_increment, and returns the
\* records accumulated from exactly those pages.
C30_AtMostPageLimitRequests ==
    /\ Len(songs_log) <= songs_args.page_limit
    /\ \A k \in 1..Len(songs_log) :
          songs_log[k] = Decimal(songs_args.start_page + (k - 1) * songs_args.page_increment)
    /\ songs_pc = "returned" => songs_data = Joined(songs_pages)

====
